---- MODULE Spec2Model ----
(***************************************************************************)
(* Resource-set algebra of scripts/rpki/resource_set.py.                   *)
(*                                                                         *)
(* A resource range is a record [min, max]; a resource set is a Python     *)
(* list of ranges.  Python lists are objects: `heap` maps an object        *)
(* identity to the list's contents, and the locals self, other, set1 and   *)
(* set2 of comm()/union() hold identities, so that "set1 = self[:]" is a   *)
(* copy into a fresh object and "set1.pop(0)" changes the object set1      *)
(* names.  An exception (a failed assert) is a result with ok = FALSE.     *)
(* Asserts are modelled as enabled (the interpreter's default).            *)
(***************************************************************************)
EXTENDS Integers, Sequences, FiniteSets, TLC

\* Largest AS number / address of the enumerated operands.
MaxVal == 3
\* Largest number of ranges in an enumerated initializer list.
MaxRanges == 3

VARIABLES
  heap,     \* object identity -> list contents
  self,     \* identity bound to `self` in the running method
  other,    \* identity bound to `other` in the running method
  item,     \* argument of contains()
  op,       \* the public method called
  pc,       \* position: "idle", "comm" (loop 111), "union" (loop 138), "done"
  set1,     \* identity bound to `set1`
  set2,     \* identity bound to `set2`
  only1,    \* comm's local list only1
  only2,    \* comm's local list only2
  both,     \* comm's local list both
  com,      \* the tuple comm() returned (symmetric_difference's `com`)
  result,   \* union's local list result
  ret,      \* what the public method returned, or the exception it raised
  found,    \* the truth value contains() returned
  tself,    \* the class of the set bound to self: "as", "ipv4" or "ipv6"
  tother,   \* the class of the set bound to other
  arg,      \* the initializer passed to the constructor (its `ini`)
  txt,      \* str() of the constructed set
  back      \* the set constructed from txt

vars == <<heap, self, other, item, op, pc, set1, set2, only1, only2, both,
          com, result, ret, found, tself, tother, arg, txt, back>>

\* What the set algebra never touches.
cons == <<tself, tother, arg, txt, back>>

----------------------------------------------------------------------------
\* Ranges

\* The range object with these two attributes.
R(a, b) == [min |-> a, max |-> b]

\* resource_range.__init__ without its assert.
resource_range_unchecked(min, max) == [ok |-> TRUE, val |-> R(min, max)]

\* resource_range.__init__: assert min <= max.
resource_range(min, max) ==
  [ok |-> min <= max, val |-> R(min, max)]

\* resource_range.__cmp__: by min, then by max; -1, 0 or 1.
cmp(a, b) ==
  LET c0 == a.min - b.min
      c  == IF c0 = 0 THEN a.max - b.max ELSE c0
  IN  IF c < 0 THEN -1 ELSE IF c > 0 THEN 1 ELSE c

RECURSIVE insert_sorted(_, _)
insert_sorted(x, s) ==
  IF s = <<>> THEN <<x>>
  ELSE IF cmp(x, Head(s)) <= 0 THEN <<x>> \o s
  ELSE <<Head(s)>> \o insert_sorted(x, Tail(s))

\* list.sort() with __cmp__ as the order.
RECURSIVE sort(_)
sort(s) == IF s = <<>> THEN <<>> ELSE insert_sorted(Head(s), sort(Tail(s)))

\* The result of a constructor or method that raised.
Raised == [ok |-> FALSE, val |-> <<>>]

\* resource_set.__init__ without the check of lines 93-95.
resource_set_unchecked(ini) == [ok |-> TRUE, val |-> sort(ini)]

\* resource_set.__init__ on a list of ranges: extend, sort, and assert that
\* adjacent ranges do not overlap.
resource_set(ini) ==
  LET s == sort(ini)
  IN  IF \A i \in 1..(Len(s) - 1) : s[i].max < s[i + 1].min
      THEN [ok |-> TRUE, val |-> s]
      ELSE Raised

\* The integers a list of ranges covers.
Cover(s) == UNION {s[i].min .. s[i].max : i \in 1..Len(s)}

\* self[i].max < self[i+1].min for every adjacent pair.
Disjoint(s) == \A i \in 1..(Len(s) - 1) : s[i].max < s[i + 1].min

----------------------------------------------------------------------------
\* comm(): the loop of lines 111-127 on the contents of the working lists.
\* A loop state is [ok, set1, set2, only1, only2, both].

\* rsplit with the upper sub-range starting at that.max instead of
\* that.max + 1.
rsplit_no_succ(rset, that) ==
  LET this == Head(rset)
      rest == Tail(rset)
  IN  IF this.min < that.min
      THEN [ok |-> TRUE,
            val |-> <<R(this.min, that.min - 1), R(that.min, this.max)>> \o rest]
      ELSE [ok |-> TRUE,
            val |-> <<R(this.min, that.max), R(that.max, this.max)>> \o rest]

\* rsplit with the lower sub-range of line 72 ending at that.min instead of
\* that.min - 1.
rsplit_no_pred(rset, that) ==
  LET this == Head(rset)
      rest == Tail(rset)
  IN  IF this.min < that.min
      THEN [ok |-> TRUE,
            val |-> <<R(this.min, that.min), R(that.min, this.max)>> \o rest]
      ELSE [ok |-> TRUE,
            val |-> <<R(this.min, that.max), R(that.max + 1, this.max)>> \o rest]

\* rsplit with the upper sub-range of line 75 starting at that.max + 2.
rsplit_gap(rset, that) ==
  LET this == Head(rset)
      rest == Tail(rset)
  IN  IF this.min < that.min
      THEN [ok |-> TRUE,
            val |-> <<R(this.min, that.min - 1), R(that.min, this.max)>> \o rest]
      ELSE LET hi == resource_range(that.max + 2, this.max)
           IN  IF ~hi.ok THEN [ok |-> FALSE, val |-> <<R(this.min, that.max)>> \o rest]
               ELSE [ok |-> TRUE, val |-> <<R(this.min, that.max), hi.val>> \o rest]

\* rsplit(rset, that): pop the head of rset and put two sub-ranges in its
\* place.  A failed assert leaves rset as it was at that point.
rsplit(rset, that) ==
  LET this == Head(rset)
      rest == Tail(rset)
  IN  IF this.min < that.min
      THEN LET lo == resource_range(this.min, that.min - 1)
               hi == resource_range(that.min, this.max)
           IN  IF ~lo.ok THEN [ok |-> FALSE, val |-> rest]
               ELSE IF ~hi.ok THEN [ok |-> FALSE, val |-> <<lo.val>> \o rest]
               ELSE [ok |-> TRUE, val |-> <<lo.val, hi.val>> \o rest]
      ELSE IF ~(this.max > that.max) THEN [ok |-> FALSE, val |-> rest]
      ELSE LET lo == resource_range(this.min, that.max)
               hi == resource_range(that.max + 1, this.max)
           IN  IF ~lo.ok THEN [ok |-> FALSE, val |-> rest]
               ELSE IF ~hi.ok THEN [ok |-> FALSE, val |-> <<lo.val>> \o rest]
               ELSE [ok |-> TRUE, val |-> <<lo.val, hi.val>> \o rest]

\* The chain with line 112 comparing set1[0].min, not set1[0].max, with
\* set2[0].min.
CommBranch_min_typo(s1, s2) ==
  IF s1 # <<>> /\ (s2 = <<>> \/ s1[1].min < s2[1].min) THEN "only1"
  ELSE IF s2 # <<>> /\ (s1 = <<>> \/ s2[1].max < s1[1].min) THEN "only2"
  ELSE IF s1[1].min < s2[1].min THEN "split1min"
  ELSE IF s2[1].min < s1[1].min THEN "split2min"
  ELSE IF s1[1].max < s2[1].max THEN "split2max"
  ELSE IF s2[1].max < s1[1].max THEN "split1max"
  ELSE "both"

\* The chain with line 112 comparing with <= instead of <.
CommBranch_le(s1, s2) ==
  IF s1 # <<>> /\ (s2 = <<>> \/ s1[1].max <= s2[1].min) THEN "only1"
  ELSE IF s2 # <<>> /\ (s1 = <<>> \/ s2[1].max < s1[1].min) THEN "only2"
  ELSE IF s1[1].min < s2[1].min THEN "split1min"
  ELSE IF s2[1].min < s1[1].min THEN "split2min"
  ELSE IF s1[1].max < s2[1].max THEN "split2max"
  ELSE IF s2[1].max < s1[1].max THEN "split1max"
  ELSE "both"

\* Which arm of the if/elif chain of lines 112-127 runs, for working lists
\* s1, s2 that are not both empty.
CommBranch(s1, s2) ==
  IF s1 # <<>> /\ (s2 = <<>> \/ s1[1].max < s2[1].min) THEN "only1"
  ELSE IF s2 # <<>> /\ (s1 = <<>> \/ s2[1].max < s1[1].min) THEN "only2"
  ELSE IF s1[1].min < s2[1].min THEN "split1min"
  ELSE IF s2[1].min < s1[1].min THEN "split2min"
  ELSE IF s1[1].max < s2[1].max THEN "split2max"
  ELSE IF s2[1].max < s1[1].max THEN "split1max"
  ELSE "both"

\* One iteration of the loop.
comm_iter(st) ==
  LET b == CommBranch(st.set1, st.set2)
  IN  CASE b = "only1" ->
             [st EXCEPT !.only1 = Append(st.only1, Head(st.set1)),
                        !.set1 = Tail(st.set1)]
        [] b = "only2" ->
             [st EXCEPT !.only2 = Append(st.only2, Head(st.set2)),
                        !.set2 = Tail(st.set2)]
        [] b \in {"split1min", "split1max"} ->
             LET r == rsplit(st.set1, Head(st.set2))
             IN  [st EXCEPT !.ok = r.ok, !.set1 = r.val]
        [] b \in {"split2min", "split2max"} ->
             LET r == rsplit(st.set2, Head(st.set1))
             IN  [st EXCEPT !.ok = r.ok, !.set2 = r.val]
        [] OTHER ->
             IF st.set1[1].min = st.set2[1].min /\ st.set1[1].max = st.set2[1].max
             THEN [st EXCEPT !.both = Append(st.both, Head(st.set1)),
                             !.set1 = Tail(st.set1),
                             !.set2 = Tail(st.set2)]
             ELSE [st EXCEPT !.ok = FALSE]

\* Line 128 with the second and third results exchanged.
comm_result_swapped(o1, o2, b) ==
  LET r1s == resource_set(o1)
      r2s == resource_set(o2)
      r3s == resource_set(b)
  IN  IF r1s.ok /\ r2s.ok /\ r3s.ok
      THEN [ok |-> TRUE, val |-> <<r1s.val, r3s.val, r2s.val>>]
      ELSE Raised

\* Line 128: the three lists become resource sets; a constructor may raise.
comm_result(o1, o2, b) ==
  LET r1 == resource_set(o1)
      r2 == resource_set(o2)
      r3 == resource_set(b)
  IN  IF r1.ok /\ r2.ok /\ r3.ok
      THEN [ok |-> TRUE, val |-> <<r1.val, r2.val, r3.val>>]
      ELSE Raised

RECURSIVE comm_loop(_)
comm_loop(st) ==
  IF ~st.ok \/ (st.set1 = <<>> /\ st.set2 = <<>>) THEN st
  ELSE comm_loop(comm_iter(st))

\* comm() as a function of the contents of its operands.
comm(A, B) ==
  LET st == comm_loop([ok |-> TRUE, set1 |-> A, set2 |-> B,
                       only1 |-> <<>>, only2 |-> <<>>, both |-> <<>>])
  IN  IF st.ok THEN comm_result(st.only1, st.only2, st.both) ELSE Raised

----------------------------------------------------------------------------
\* union(): the loop of lines 138-151.  A loop state is
\* [ok, set1, set2, result].

\* Lines 147-151 with max taken from this whatever that.max is.
merged_this_max(this, that) ==
  LET min == IF this.min < that.min THEN this.min ELSE that.min
  IN  resource_range(min, this.max)

\* Lines 147-151: the range spanning this and that.
merged(this, that) ==
  LET min == IF this.min < that.min THEN this.min ELSE that.min
      max == IF this.max > that.max THEN this.max ELSE that.max
  IN  resource_range(min, max)

\* The arms with line 139 comparing with <= instead of <.
UnionBranch_le(s1, s2) ==
  IF s1 # <<>> /\ (s2 = <<>> \/ s1[1].max <= s2[1].min) THEN "take1"
  ELSE IF s2 # <<>> /\ (s1 = <<>> \/ s2[1].max < s1[1].min) THEN "take2"
  ELSE "merge"

\* Which arm of the if/elif/else of lines 139-151 runs.
UnionBranch(s1, s2) ==
  IF s1 # <<>> /\ (s2 = <<>> \/ s1[1].max < s2[1].min) THEN "take1"
  ELSE IF s2 # <<>> /\ (s1 = <<>> \/ s2[1].max < s1[1].min) THEN "take2"
  ELSE "merge"

union_iter(st) ==
  LET b == UnionBranch(st.set1, st.set2)
  IN  CASE b = "take1" ->
             [st EXCEPT !.result = Append(st.result, Head(st.set1)),
                        !.set1 = Tail(st.set1)]
        [] b = "take2" ->
             [st EXCEPT !.result = Append(st.result, Head(st.set2)),
                        !.set2 = Tail(st.set2)]
        [] OTHER ->
             LET r == merged(Head(st.set1), Head(st.set2))
             IN  [ok |-> r.ok,
                  set1 |-> Tail(st.set1),
                  set2 |-> Tail(st.set2),
                  result |-> IF r.ok THEN Append(st.result, r.val)
                                     ELSE st.result]

RECURSIVE union_loop(_)
union_loop(st) ==
  IF ~st.ok \/ (st.set1 = <<>> /\ st.set2 = <<>>) THEN st
  ELSE union_loop(union_iter(st))

\* union() as a function of the contents of its operands.
union(A, B) ==
  LET st == union_loop([ok |-> TRUE, set1 |-> A, set2 |-> B, result |-> <<>>])
  IN  IF st.ok THEN resource_set(st.result) ELSE Raised

\* intersection(), difference(), symmetric_difference() as functions.
intersection(A, B) ==
  LET c == comm(A, B) IN IF c.ok THEN [ok |-> TRUE, val |-> c.val[3]] ELSE Raised

difference(A, B) ==
  LET c == comm(A, B) IN IF c.ok THEN [ok |-> TRUE, val |-> c.val[1]] ELSE Raised

symmetric_difference(A, B) ==
  LET c == comm(A, B) IN IF c.ok THEN union(c.val[1], c.val[2]) ELSE Raised

\* contains(): the loop of lines 177-184 over the list s of a set of class
\* dom.  An item is [kind, dom, min, max]: a range, or a scalar with
\* min = max, of the domain dom.  isinstance() of lines 178 and 180 holds
\* when the item is of the set's domain; the assert of line 183 fails in
\* the first iteration otherwise.
RECURSIVE contains_loop_strict(_, _, _)
\* The loop with < and > for <= and >= in lines 178 and 180.
contains_loop_strict(dom, s, it) ==
  IF s = <<>> THEN [ok |-> TRUE, val |-> FALSE]
  ELSE LET i == Head(s)
       IN  IF it.kind = "range" /\ it.dom = dom
              /\ i.min < it.min /\ i.max > it.max
           THEN [ok |-> TRUE, val |-> TRUE]
           ELSE IF it.kind = "scalar" /\ it.dom = dom
                   /\ i.min < it.min /\ i.max > it.min
           THEN [ok |-> TRUE, val |-> TRUE]
           ELSE IF it.dom # dom THEN Raised
           ELSE contains_loop_strict(dom, Tail(s), it)

RECURSIVE contains_loop(_, _, _)
contains_loop(dom, s, it) ==
  IF s = <<>> THEN [ok |-> TRUE, val |-> FALSE]
  ELSE LET i == Head(s)
       IN  IF it.kind = "range" /\ it.dom = dom
              /\ i.min <= it.min /\ i.max >= it.max
           THEN [ok |-> TRUE, val |-> TRUE]
           ELSE IF it.kind = "scalar" /\ it.dom = dom
                   /\ i.min <= it.min /\ i.max >= it.min
           THEN [ok |-> TRUE, val |-> TRUE]
           ELSE IF it.dom # dom THEN Raised
           ELSE contains_loop(dom, Tail(s), it)

contains(dom, s, it) == contains_loop(dom, s, it)

\* A range, or a number, of the domain dom as an argument of contains().
RangeItem(dom, r) == [kind |-> "range", dom |-> dom, min |-> r.min, max |-> r.max]
ScalarItem(dom, n) == [kind |-> "scalar", dom |-> dom, min |-> n, max |-> n]

----------------------------------------------------------------------------
\* Operands

\* The ranges resource_range.__init__ accepts.
Ranges ==
  {resource_range(p[1], p[2]).val :
     p \in {q \in (0..MaxVal) \X (0..MaxVal) : resource_range(q[1], q[2]).ok}}

\* Initializer lists, in any order and possibly overlapping.
InitLists == UNION {[1..n -> Ranges] : n \in 0..MaxRanges}

\* The sets resource_set.__init__ accepts.
ValidSets == {resource_set(l).val : l \in {x \in InitLists : resource_set(x).ok}}

\* A set of single numbers, as "1,2,3" parses.
Singles(ns) == [i \in 1..Len(ns) |-> R(ns[i], ns[i])]

\* The operands of the self-test (line 327) and of the worked examples.
TestAs1 == Singles(<<1, 2, 3, 4, 5, 6, 11, 12, 13, 14, 15>>)
TestAs2 == Singles(<<1, 2, 3, 4, 5, 6, 111, 121, 131, 141, 151>>)
ExampleOperands ==
  { <<TestAs1, TestAs2>>,
    << <<R(1, 5), R(10, 15)>>, <<R(4, 12)>> >>,
    << <<R(1, 10)>>, <<R(2, 3), R(5, 6)>> >>,
    << <<R(50, 200)>>, <<R(1, 99), R(101, 200)>> >>,
    << <<R(1, 99), R(101, 200)>>, <<R(50, 200)>> >>,
    << <<R(1, 5)>>, <<R(6, 10)>> >> }

Operands == (ValidSets \X ValidSets) \cup ExampleOperands

\* Arguments of contains().
Items ==
  {RangeItem("as", r) : r \in Ranges \cup {R(100, 100)}}
    \cup {ScalarItem("as", n) : n \in (0..MaxVal) \cup {100}}

\* The three classes of set (lines 186, 243, 251).
Domains == {"as", "ipv4", "ipv6"}

\* Arguments of contains() on a set of class dom: the items above as items
\* of its domain, and a range and a number of each other domain.
ItemsOf(dom) ==
  {[it EXCEPT !.dom = dom] : it \in Items}
    \cup {RangeItem(d, R(0, 0)) : d \in Domains \ {dom}}
    \cup {ScalarItem(d, 0) : d \in Domains \ {dom}}

\* Object identities: the caller's two sets r1 and r2 (lines 297-298), the
\* working copies, and the two sets symmetric_difference passes to union.
Objs == {"r1", "r2", "s1", "s2", "c0", "c1"}

NoItem == [kind |-> "none", dom |-> "none", min |-> 0, max |-> 0]
NoIni ==
  [type |-> "none", text |-> <<>>, tag |-> "", entries |-> <<>>, list |-> <<>>]
NoResult == [ok |-> TRUE, val |-> <<>>]

\* The caller's operands.
r1 == heap["r1"]
r2 == heap["r2"]

Init ==
  /\ \E ab \in Operands :
       heap = [o \in Objs |-> IF o = "r1" THEN ab[1]
                              ELSE IF o = "r2" THEN ab[2] ELSE <<>>]
  /\ self = "r1"
  /\ other = "r2"
  /\ item = NoItem
  /\ op = "none"
  /\ pc = "idle"
  /\ set1 = "s1"
  /\ set2 = "s2"
  /\ only1 = <<>>
  /\ only2 = <<>>
  /\ both = <<>>
  /\ com = NoResult
  /\ result = <<>>
  /\ ret = NoResult
  /\ found = FALSE
  /\ tself = "as"
  /\ tother = "as"
  /\ arg = NoIni
  /\ txt = <<>>
  /\ back = NoResult

\* Largest number of ranges of an operand when the two operands may be of
\* different classes.
MaxTypedRanges == 1

TypedSets == {s \in ValidSets : Len(s) <= MaxTypedRanges}

\* Two sets of any two classes.
InitTyped ==
  /\ \E ab \in TypedSets \X TypedSets :
       heap = [o \in Objs |-> IF o = "r1" THEN ab[1]
                              ELSE IF o = "r2" THEN ab[2] ELSE <<>>]
  /\ self = "r1"
  /\ other = "r2"
  /\ item = NoItem
  /\ op = "none"
  /\ pc = "idle"
  /\ set1 = "s1"
  /\ set2 = "s2"
  /\ only1 = <<>>
  /\ only2 = <<>>
  /\ both = <<>>
  /\ com = NoResult
  /\ result = <<>>
  /\ ret = NoResult
  /\ found = FALSE
  /\ tself \in Domains
  /\ tother \in Domains
  /\ arg = NoIni
  /\ txt = <<>>
  /\ back = NoResult

----------------------------------------------------------------------------
\* Calls

\* "set1 = self" instead of "set1 = self[:]": no copy, the local names the
\* operand itself.
slice_alias(h, src, dst) == [heap |-> h, ref |-> src]

\* src[:] bound to a local: a new list object dst with the contents of src.
slice(h, src, dst) == [heap |-> [h EXCEPT ![dst] = h[src]], ref |-> dst]

\* Lines 107-110: the assert on the two classes, then the copies.
comm_enter(h, me, you, tme, tyou) ==
  IF tme = tyou
  THEN LET c1 == slice(h, me, "s1")
           c2 == slice(c1.heap, you, "s2")
       IN  /\ heap' = c2.heap
           /\ set1' = c1.ref
           /\ set2' = c2.ref
           /\ only1' = <<>>
           /\ only2' = <<>>
           /\ both' = <<>>
           /\ pc' = "comm"
           /\ ret' = ret
  ELSE /\ pc' = "done"
       /\ ret' = Raised
       /\ UNCHANGED <<heap, set1, set2, only1, only2, both>>

\* Lines 134-137: the assert on the two classes, then the copies.
union_enter(h, me, you, tme, tyou) ==
  IF tme = tyou
  THEN LET c1 == slice(h, me, "s1")
           c2 == slice(c1.heap, you, "s2")
       IN  /\ heap' = c2.heap
           /\ set1' = c1.ref
           /\ set2' = c2.ref
           /\ result' = <<>>
           /\ pc' = "union"
           /\ ret' = ret
  ELSE /\ pc' = "done"
       /\ ret' = Raised
       /\ UNCHANGED <<heap, set1, set2, result>>

comm_call ==
  /\ pc = "idle"
  /\ op' = "comm"
  /\ comm_enter(heap, self, other, tself, tother)
  /\ UNCHANGED <<found, tself, tother, arg, txt, back, self, other, item, com, result>>

intersection_call ==
  /\ pc = "idle"
  /\ op' = "intersection"
  /\ comm_enter(heap, self, other, tself, tother)
  /\ UNCHANGED <<found, tself, tother, arg, txt, back, self, other, item, com, result>>

difference_call ==
  /\ pc = "idle"
  /\ op' = "difference"
  /\ comm_enter(heap, self, other, tself, tother)
  /\ UNCHANGED <<found, tself, tother, arg, txt, back, self, other, item, com, result>>

symmetric_difference_call ==
  /\ pc = "idle"
  /\ op' = "symmetric_difference"
  /\ comm_enter(heap, self, other, tself, tother)
  /\ UNCHANGED <<found, tself, tother, arg, txt, back, self, other, item, com, result>>

union_call ==
  /\ pc = "idle"
  /\ op' = "union"
  /\ union_enter(heap, self, other, tself, tother)
  /\ UNCHANGED <<found, tself, tother, arg, txt, back, self, other, item, only1, only2, both, com>>

\* contains() reads self and returns.
contains_call ==
  /\ pc = "idle"
  /\ \E it \in ItemsOf(tself) :
       /\ item' = it
       /\ LET c == contains(tself, heap[self], it)
          IN  /\ ret' = [ok |-> c.ok, val |-> <<>>]
              /\ found' = (c.ok /\ c.val)
  /\ op' = "contains"
  /\ pc' = "done"
  /\ UNCHANGED <<tself, tother, arg, txt, back, heap, self, other, set1, set2, only1, only2, both, com, result>>

----------------------------------------------------------------------------
\* comm(): one action per arm of the loop body, and the return.

CommState ==
  [ok |-> TRUE, set1 |-> heap[set1], set2 |-> heap[set2],
   only1 |-> only1, only2 |-> only2, both |-> both]

\* The while test of line 111.
CommMore == heap[set1] # <<>> \/ heap[set2] # <<>>

\* The loop body: pops and inserts act on the objects set1 and set2 name.
comm_step ==
  LET st == comm_iter(CommState)
  IN  /\ heap' = [heap EXCEPT ![set1] = st.set1, ![set2] = st.set2]
      /\ only1' = st.only1
      /\ only2' = st.only2
      /\ both' = st.both
      /\ pc' = IF st.ok THEN "comm" ELSE "done"
      /\ ret' = IF st.ok THEN ret ELSE Raised
      /\ UNCHANGED <<found, tself, tother, arg, txt, back, self, other, item, op, set1, set2, com, result>>

\* The loop is at its test, it goes on, and arm b is the one that runs.
CommAt(b) == pc = "comm" /\ CommMore /\ CommBranch(heap[set1], heap[set2]) = b

comm_only1 ==
  /\ CommAt("only1")
  /\ comm_step

comm_only2 ==
  /\ CommAt("only2")
  /\ comm_step

comm_split1min ==
  /\ CommAt("split1min")
  /\ comm_step

comm_split2min ==
  /\ CommAt("split2min")
  /\ comm_step

comm_split2max ==
  /\ CommAt("split2max")
  /\ comm_step

comm_split1max ==
  /\ CommAt("split1max")
  /\ comm_step

comm_both ==
  /\ CommAt("both")
  /\ comm_step

\* Line 128, returning to the caller of comm().
comm_return ==
  /\ pc = "comm"
  /\ ~CommMore
  /\ op = "comm"
  /\ com' = comm_result(only1, only2, both)
  /\ ret' = com'
  /\ pc' = "done"
  /\ UNCHANGED <<found, tself, tother, arg, txt, back, heap, self, other, item, op, set1, set2, only1, only2, both, result>>

\* Line 158 returning comm(other)[0].
intersection_return_first ==
  /\ pc = "comm"
  /\ ~CommMore
  /\ op = "intersection"
  /\ com' = comm_result(only1, only2, both)
  /\ ret' = IF com'.ok THEN [ok |-> TRUE, val |-> com'.val[1]] ELSE Raised
  /\ pc' = "done"
  /\ UNCHANGED <<found, tself, tother, arg, txt, back, heap, self, other, item, op, set1, set2, only1, only2, both, result>>

\* Line 158: comm(other)[2].
intersection_return ==
  /\ pc = "comm"
  /\ ~CommMore
  /\ op = "intersection"
  /\ com' = comm_result(only1, only2, both)
  /\ ret' = IF com'.ok THEN [ok |-> TRUE, val |-> com'.val[3]] ELSE Raised
  /\ pc' = "done"
  /\ UNCHANGED <<found, tself, tother, arg, txt, back, heap, self, other, item, op, set1, set2, only1, only2, both, result>>

\* Line 164 returning comm(other)[1].
difference_return_second ==
  /\ pc = "comm"
  /\ ~CommMore
  /\ op = "difference"
  /\ com' = comm_result(only1, only2, both)
  /\ ret' = IF com'.ok THEN [ok |-> TRUE, val |-> com'.val[2]] ELSE Raised
  /\ pc' = "done"
  /\ UNCHANGED <<found, tself, tother, arg, txt, back, heap, self, other, item, op, set1, set2, only1, only2, both, result>>

\* Line 164: comm(other)[0].
difference_return ==
  /\ pc = "comm"
  /\ ~CommMore
  /\ op = "difference"
  /\ com' = comm_result(only1, only2, both)
  /\ ret' = IF com'.ok THEN [ok |-> TRUE, val |-> com'.val[1]] ELSE Raised
  /\ pc' = "done"
  /\ UNCHANGED <<found, tself, tother, arg, txt, back, heap, self, other, item, op, set1, set2, only1, only2, both, result>>

\* Lines 170-171: com = self.comm(other), then com[0].union(com[1]) with
\* self and other bound to com[0] and com[1] in union's frame.
symmetric_difference_union ==
  /\ pc = "comm"
  /\ ~CommMore
  /\ op = "symmetric_difference"
  /\ com' = comm_result(only1, only2, both)
  /\ IF com'.ok
     THEN /\ self' = "c0"
          /\ other' = "c1"
          /\ union_enter([heap EXCEPT !["c0"] = com'.val[1],
                                      !["c1"] = com'.val[2]], "c0", "c1",
                      tself, tself)
     ELSE /\ pc' = "done"
          /\ ret' = Raised
          /\ UNCHANGED <<found, tself, tother, arg, txt, back, heap, self, other, set1, set2, result>>
  /\ UNCHANGED <<found, tself, tother, arg, txt, back, item, op, only1, only2, both>>

----------------------------------------------------------------------------
\* union(): one action per arm of the loop body, and the return.

UnionState ==
  [ok |-> TRUE, set1 |-> heap[set1], set2 |-> heap[set2], result |-> result]

\* The while test of line 138.
UnionMore == heap[set1] # <<>> \/ heap[set2] # <<>>

union_step ==
  LET st == union_iter(UnionState)
  IN  /\ heap' = [heap EXCEPT ![set1] = st.set1, ![set2] = st.set2]
      /\ result' = st.result
      /\ pc' = IF st.ok THEN "union" ELSE "done"
      /\ ret' = IF st.ok THEN ret ELSE Raised
      /\ UNCHANGED <<found, tself, tother, arg, txt, back, self, other, item, op, set1, set2, only1, only2, both, com>>

\* The loop is at its test, it goes on, and arm b is the one that runs.
UnionAt(b) == pc = "union" /\ UnionMore /\ UnionBranch(heap[set1], heap[set2]) = b

union_take1 ==
  /\ UnionAt("take1")
  /\ union_step

union_take2 ==
  /\ UnionAt("take2")
  /\ union_step

union_merge ==
  /\ UnionAt("merge")
  /\ union_step

\* Line 152: the constructor sorts result and checks it for overlap.
union_return ==
  /\ pc = "union"
  /\ ~UnionMore
  /\ ret' = resource_set(result)
  /\ pc' = "done"
  /\ UNCHANGED <<found, tself, tother, arg, txt, back, heap, self, other, item, op, set1, set2, only1, only2, both,
                 com, result>>

Next ==
  \/ comm_call
  \/ intersection_call
  \/ difference_call
  \/ symmetric_difference_call
  \/ union_call
  \/ contains_call
  \/ comm_only1
  \/ comm_only2
  \/ comm_split1min
  \/ comm_split2min
  \/ comm_split2max
  \/ comm_split1max
  \/ comm_both
  \/ comm_return
  \/ intersection_return
  \/ difference_return
  \/ symmetric_difference_union
  \/ union_take1
  \/ union_take2
  \/ union_merge
  \/ union_return

Spec == Init /\ [][Next]_vars

\* The same calls on two sets of any two classes.
SpecTyped == InitTyped /\ [][Next]_vars

\* Largest number of the operands whose calls are followed to their end.
MaxLiveVal == 2

\* Sets of at most two ranges of small numbers.
LiveSets ==
  {s \in ValidSets : Len(s) <= 2 /\ \A i \in 1..Len(s) : s[i].max <= MaxLiveVal}

InitLive ==
  /\ \E ab \in LiveSets \X LiveSets :
       heap = [o \in Objs |-> IF o = "r1" THEN ab[1]
                              ELSE IF o = "r2" THEN ab[2] ELSE <<>>]
  /\ self = "r1"
  /\ other = "r2"
  /\ item = NoItem
  /\ op = "none"
  /\ pc = "idle"
  /\ set1 = "s1"
  /\ set2 = "s2"
  /\ only1 = <<>>
  /\ only2 = <<>>
  /\ both = <<>>
  /\ com = NoResult
  /\ result = <<>>
  /\ ret = NoResult
  /\ found = FALSE
  /\ tself = "as"
  /\ tother = "as"
  /\ arg = NoIni
  /\ txt = <<>>
  /\ back = NoResult

\* Every step changes the position of the call or a list.
progress == <<pc, heap>>

\* A call that was made runs on: the interpreter executes the loop body
\* again while the loop test holds, and returns after it.
SpecLive == InitLive /\ [][Next]_vars /\ WF_progress(Next)

----------------------------------------------------------------------------
\* Text.  A Python str is a sequence of one-character strings.

Digits == {"0", "1", "2", "3", "4", "5", "6", "7", "8", "9"}

DigitVal(c) ==
  CASE c = "0" -> 0 [] c = "1" -> 1 [] c = "2" -> 2 [] c = "3" -> 3
    [] c = "4" -> 4 [] c = "5" -> 5 [] c = "6" -> 6 [] c = "7" -> 7
    [] c = "8" -> 8 [] c = "9" -> 9

DigitChar(n) ==
  CASE n = 0 -> "0" [] n = 1 -> "1" [] n = 2 -> "2" [] n = 3 -> "3"
    [] n = 4 -> "4" [] n = 5 -> "5" [] n = 6 -> "6" [] n = 7 -> "7"
    [] n = 8 -> "8" [] n = 9 -> "9"

AllDigits(t) == Len(t) >= 1 /\ \A i \in 1..Len(t) : t[i] \in Digits

\* The value of a non-empty run of decimal digits.
RECURSIVE DecVal(_)
DecVal(t) ==
  IF Len(t) = 1 THEN DigitVal(t[1])
  ELSE 10 * DecVal(SubSeq(t, 1, Len(t) - 1)) + DigitVal(t[Len(t)])

\* str() of a number, as Python writes it.
RECURSIVE DecStr(_)
DecStr(n) ==
  IF n < 0 THEN <<"-">> \o DecStr(0 - n)
  ELSE IF n < 10 THEN <<DigitChar(n)>>
  ELSE DecStr(n \div 10) \o <<DigitChar(n % 10)>>

\* x.strip() for the one whitespace character of the texts here.
RECURSIVE lstrip(_)
lstrip(t) == IF t # <<>> /\ Head(t) = " " THEN lstrip(Tail(t)) ELSE t

RECURSIVE rstrip(_)
rstrip(t) ==
  IF t # <<>> /\ t[Len(t)] = " " THEN rstrip(SubSeq(t, 1, Len(t) - 1)) ELSE t

\* long(x) of line 196: Python strips whitespace and takes an optional sign
\* before the digits; anything else is a ValueError.
long(x) ==
  LET t == rstrip(lstrip(x))
  IN  IF AllDigits(t) THEN [ok |-> TRUE, val |-> DecVal(t)]
      ELSE IF t # <<>> /\ Head(t) = "-" /\ AllDigits(Tail(t))
      THEN [ok |-> TRUE, val |-> 0 - DecVal(Tail(t))]
      ELSE IF t # <<>> /\ Head(t) = "+" /\ AllDigits(Tail(t))
      THEN [ok |-> TRUE, val |-> DecVal(Tail(t))]
      ELSE [ok |-> FALSE, val |-> 0]

\* ini.split(","): the pieces between the commas, empty pieces included.
RECURSIVE split_from(_, _)
split_from(t, piece) ==
  IF t = <<>> THEN <<piece>>
  ELSE IF Head(t) = "," THEN <<piece>> \o split_from(Tail(t), <<>>)
  ELSE split_from(Tail(t), Append(piece, Head(t)))

split(t) == split_from(t, <<>>)

\* ",".join(pieces).
RECURSIVE join(_)
join(pieces) ==
  IF pieces = <<>> THEN <<>>
  ELSE IF Len(pieces) = 1 THEN pieces[1]
  ELSE pieces[1] \o <<",">> \o join(Tail(pieces))

\* The positions of character c in t.
Positions(t, c) == {i \in 1..Len(t) : t[i] = c}

\* re.match("^([0-9]+)-([0-9]+)$", x) of line 192: the two groups, or no
\* match.  (No text here ends in a newline, which "$" would let pass.)
match_as_range(x) ==
  LET ps == {i \in Positions(x, "-") :
               AllDigits(SubSeq(x, 1, i - 1)) /\ AllDigits(SubSeq(x, i + 1, Len(x)))}
  IN  IF ps = {} THEN [ok |-> FALSE, g1 |-> <<>>, g2 |-> <<>>]
      ELSE LET i == CHOOSE j \in ps : TRUE
           IN  [ok |-> TRUE, g1 |-> SubSeq(x, 1, i - 1),
                g2 |-> SubSeq(x, i + 1, Len(x))]

\* resource_set_as.parse_str (lines 191-196).
parse_str_as(x) ==
  LET r == match_as_range(x)
  IN  IF r.ok
      THEN resource_range(long(r.g1).val, long(r.g2).val)
      ELSE LET n == long(x)
           IN  IF n.ok THEN resource_range(n.val, n.val)
               ELSE [ok |-> FALSE, val |-> R(0, 0)]

\* resource_range_as.__str__ (lines 29-33).
str_range_as(r) ==
  IF r.min = r.max THEN DecStr(r.min)
  ELSE DecStr(r.min) \o <<"-">> \o DecStr(r.max)

----------------------------------------------------------------------------
\* IP addresses.  ipaddrs.v4addr and v6addr are integers of a fixed width
\* with a text form; here one address class of AddrBits bits, written as
\* two dotted decimal fields.

\* Width of an address (addr_type.bits).
AddrBits == 4

RECURSIVE Pow2(_)
Pow2(n) == IF n = 0 THEN 1 ELSE 2 * Pow2(n - 1)

LowBits == AddrBits \div 2

Addrs == 0..(Pow2(AddrBits) - 1)

\* str(addr).
addr_str(a) ==
  DecStr(a \div Pow2(LowBits)) \o <<".">> \o DecStr(a % Pow2(LowBits))

\* addr_type(text): the address a dotted text denotes, or an error.
addr_type(t) ==
  LET ps == {i \in Positions(t, ".") :
               AllDigits(SubSeq(t, 1, i - 1)) /\ AllDigits(SubSeq(t, i + 1, Len(t)))}
  IN  IF Cardinality(Positions(t, ".")) # 1 \/ ps = {}
      THEN [ok |-> FALSE, val |-> 0]
      ELSE LET i  == CHOOSE j \in ps : TRUE
               hi == DecVal(SubSeq(t, 1, i - 1))
               lo == DecVal(SubSeq(t, i + 1, Len(t)))
           IN  IF hi < Pow2(AddrBits - LowBits) /\ lo < Pow2(LowBits)
               THEN [ok |-> TRUE, val |-> hi * Pow2(LowBits) + lo]
               ELSE [ok |-> FALSE, val |-> 0]

\* a & b, a | b and a ^ b on non-negative integers.
RECURSIVE band(_, _)
band(a, b) ==
  IF a = 0 \/ b = 0 THEN 0
  ELSE (a % 2) * (b % 2) + 2 * band(a \div 2, b \div 2)

RECURSIVE bor(_, _)
bor(a, b) ==
  IF a = 0 THEN b ELSE IF b = 0 THEN a
  ELSE (IF a % 2 = 1 \/ b % 2 = 1 THEN 1 ELSE 0) + 2 * bor(a \div 2, b \div 2)

RECURSIVE bxor(_, _)
bxor(a, b) ==
  IF a = 0 THEN b ELSE IF b = 0 THEN a
  ELSE ((a + b) % 2) + 2 * bxor(a \div 2, b \div 2)

\* The characters of [0-9:.a-fA-F].
IpChars ==
  Digits \cup {":", ".", "a", "b", "c", "d", "e", "f", "A", "B", "C", "D", "E", "F"}

AllIpChars(t) == Len(t) >= 1 /\ \A i \in 1..Len(t) : t[i] \in IpChars

\* re.match("^([0-9:.a-fA-F]+)-([0-9:.a-fA-F]+)$", x) of line 216.
match_ip_range(x) ==
  LET ps == {i \in Positions(x, "-") :
               AllIpChars(SubSeq(x, 1, i - 1)) /\ AllIpChars(SubSeq(x, i + 1, Len(x)))}
  IN  IF ps = {} THEN [ok |-> FALSE, g1 |-> <<>>, g2 |-> <<>>]
      ELSE LET i == CHOOSE j \in ps : TRUE
           IN  [ok |-> TRUE, g1 |-> SubSeq(x, 1, i - 1),
                g2 |-> SubSeq(x, i + 1, Len(x))]

\* re.match("^([0-9:.a-fA-F]+)/([0-9]+)$", x) of line 219.
match_ip_prefix(x) ==
  LET ps == {i \in Positions(x, "/") :
               AllIpChars(SubSeq(x, 1, i - 1)) /\ AllDigits(SubSeq(x, i + 1, Len(x)))}
  IN  IF ps = {} THEN [ok |-> FALSE, g1 |-> <<>>, g2 |-> <<>>]
      ELSE LET i == CHOOSE j \in ps : TRUE
           IN  [ok |-> TRUE, g1 |-> SubSeq(x, 1, i - 1),
                g2 |-> SubSeq(x, i + 1, Len(x))]

NoRange == [ok |-> FALSE, val |-> R(0, 0)]

\* resource_set_ip.parse_str without the assert of line 224.
parse_str_ip_no_assert(x) ==
  LET r == match_ip_range(x)
      q == match_ip_prefix(x)
  IN  IF r.ok
      THEN LET a1 == addr_type(r.g1)
               a2 == addr_type(r.g2)
           IN  IF a1.ok /\ a2.ok THEN resource_range(a1.val, a2.val) ELSE NoRange
      ELSE IF q.ok
      THEN LET min == addr_type(q.g1)
               prefixlen == DecVal(q.g2)
           IN  IF ~min.ok \/ prefixlen > AddrBits THEN NoRange
               ELSE LET mask == Pow2(AddrBits - prefixlen) - 1
                    IN  resource_range(min.val, bor(min.val, mask))
      ELSE NoRange

\* resource_set_ip.parse_str (lines 215-227).  A prefix length above the
\* width makes the shift count of line 223 negative, a ValueError.
parse_str_ip(x) ==
  LET r == match_ip_range(x)
      q == match_ip_prefix(x)
  IN  IF r.ok
      THEN LET a1 == addr_type(r.g1)
               a2 == addr_type(r.g2)
           IN  IF a1.ok /\ a2.ok THEN resource_range(a1.val, a2.val) ELSE NoRange
      ELSE IF q.ok
      THEN LET min == addr_type(q.g1)
               prefixlen == DecVal(q.g2)
           IN  IF ~min.ok \/ prefixlen > AddrBits THEN NoRange
               ELSE LET mask == Pow2(AddrBits - prefixlen) - 1
                    IN  IF band(min.val, mask) # 0 THEN NoRange
                        ELSE resource_range(min.val, bor(min.val, mask))
      ELSE NoRange

\* The while loop of lines 45-47: [mask, prefixlen] when it ends.
RECURSIVE strip_ones(_, _)
strip_ones(mask, prefixlen) ==
  IF mask % 2 = 1 THEN strip_ones(mask \div 2, prefixlen - 1)
  ELSE [mask |-> mask, prefixlen |-> prefixlen]

\* resource_range_ip.__str__ (lines 42-51).
str_range_ip(r) ==
  LET e == strip_ones(bxor(r.min, r.max), AddrBits)
  IN  IF e.mask # 0
      THEN addr_str(r.min) \o <<"-">> \o addr_str(r.max)
      ELSE addr_str(r.min) \o <<"/">> \o DecStr(e.prefixlen)

\* parse_str and __str__ of the class cls.
parse_str(cls, x) == IF cls = "as" THEN parse_str_as(x) ELSE parse_str_ip(x)
str_range(cls, r) == IF cls = "as" THEN str_range_as(r) ELSE str_range_ip(r)

\* resource_set.__str__ (lines 97-98).
str_set(cls, s) == join([i \in 1..Len(s) |-> str_range(cls, s[i])])

----------------------------------------------------------------------------
\* Decoded extension tuples.  A tuple has a tag and entries; an entry is
\* [kind, a, b]: ("range", (a, b)) or ("id", a) for AS numbers,
\* ("addressRange", (a, b)) or ("addressPrefix", a) for addresses, where an
\* address field is a bit-string, a sequence of 0s and 1s.

\* bs2long (lines 259-264).
RECURSIVE bs2long(_)
bs2long(bs) ==
  IF bs = <<>> THEN 0
  ELSE bor(2 * bs2long(SubSeq(bs, 1, Len(bs) - 1)), bs[Len(bs)])

\* The body of the loop of resource_set_as.parse_tuple (lines 201-207).
as_entry(aor) ==
  IF aor.kind = "range" THEN resource_range(aor.a, aor.b)
  ELSE resource_range(aor.a, aor.a)

\* The body of the loop of resource_set_ip.parse_tuple (lines 232-241).  A
\* bit-string longer than the width makes the shift count negative, a
\* ValueError.  Line 240 assigns max for both kinds of entry.
ip_entry(aor) ==
  IF aor.kind = "addressRange"
  THEN IF Len(aor.a) > AddrBits \/ Len(aor.b) > AddrBits THEN NoRange
       ELSE LET min  == bs2long(aor.a) * Pow2(AddrBits - Len(aor.a))
                mask == Pow2(AddrBits - Len(aor.b)) - 1
            IN  resource_range(min, bor(min, mask))
  ELSE IF Len(aor.a) > AddrBits THEN NoRange
       ELSE LET min  == bs2long(aor.a) * Pow2(AddrBits - Len(aor.a))
                mask == Pow2(AddrBits - Len(aor.a)) - 1
            IN  IF band(min, mask) # 0 THEN NoRange
                ELSE resource_range(min, bor(min, mask))

\* The tag parse_tuple asserts (lines 199 and 230).
tuple_tag(cls) == IF cls = "as" THEN "asIdsOrRanges" ELSE "addressesOrRanges"

\* The ranges a loop appends, or the error its first failing entry raises.
RECURSIVE parse_entries(_, _)
parse_entries(cls, es) ==
  IF es = <<>> THEN [ok |-> TRUE, val |-> <<>>]
  ELSE LET h == IF cls = "as" THEN as_entry(Head(es)) ELSE ip_entry(Head(es))
           t == parse_entries(cls, Tail(es))
       IN  IF h.ok /\ t.ok THEN [ok |-> TRUE, val |-> <<h.val>> \o t.val]
           ELSE Raised

\* A parse_tuple that does not look at the tag.
parse_tuple_any_tag(cls, x) == parse_entries(cls, x.entries)

\* parse_tuple of the class cls (lines 198-207 and 229-241).
parse_tuple(cls, x) ==
  IF x.tag # tuple_tag(cls) THEN Raised ELSE parse_entries(cls, x.entries)

\* map(self.parse_str, pieces) of line 85.
RECURSIVE parse_pieces(_, _)
parse_pieces(cls, ps) ==
  IF ps = <<>> THEN [ok |-> TRUE, val |-> <<>>]
  ELSE LET h == parse_str(cls, Head(ps))
           t == parse_pieces(cls, Tail(ps))
       IN  IF h.ok /\ t.ok THEN [ok |-> TRUE, val |-> <<h.val>> \o t.val]
           ELSE Raised

\* The chain without the assert of line 91.
ini_ranges_no_assert(cls, a) ==
  IF a.type = "str" /\ Len(a.text) > 0 THEN parse_pieces(cls, split(a.text))
  ELSE IF a.type = "tuple" THEN parse_tuple(cls, a)
  ELSE IF a.type = "list" THEN [ok |-> TRUE, val |-> a.list]
  ELSE [ok |-> TRUE, val |-> <<>>]

\* The if/elif chain of resource_set.__init__ (lines 84-91): the ranges the
\* initializer a gives, before the sort.
ini_ranges(cls, a) ==
  IF a.type = "str" /\ Len(a.text) > 0 THEN parse_pieces(cls, split(a.text))
  ELSE IF a.type = "tuple" THEN parse_tuple(cls, a)
  ELSE IF a.type = "list" THEN [ok |-> TRUE, val |-> a.list]
  ELSE IF a.type = "None" THEN [ok |-> TRUE, val |-> <<>>]
  ELSE Raised

\* cls(a): resource_set.__init__ (lines 83-95) on any initializer.
new_set(cls, a) ==
  LET got == ini_ranges(cls, a)
  IN  IF got.ok THEN resource_set(got.val) ELSE Raised

----------------------------------------------------------------------------
\* Construction, serialization and re-parsing of one set.

\* Longest AS text, most entries of an AS tuple or a list (and the largest
\* number in an AS tuple), longest bit-string of a two-entry address tuple.
MaxText == 4
MaxEntries == 2
MaxBitLen == 2

Seqs(S, n) == UNION {[1..k -> S] : k \in 0..n}

\* The classes constructed here: AS numbers and one address class.
ConsClasses == {"as", "ipv4"}

\* An initializer: its Python type and, by type, its text, its tag and
\* entries, or its list of ranges.
Ini(type, text, tag, entries, list) ==
  [type |-> type, text |-> text, tag |-> tag, entries |-> entries, list |-> list]

StrIni(t) == Ini("str", t, "", <<>>, <<>>)
TupleIni(tag, es) == Ini("tuple", <<>>, tag, es, <<>>)
ListIni(l) == Ini("list", <<>>, "", <<>>, l)

\* No initializer, and an initializer of no accepted type.
OtherInis == {Ini("None", <<>>, "", <<>>, <<>>), Ini("other", <<>>, "", <<>>, <<>>)}

\* Every short text over the characters of AS texts and a few others.
TextChars == {"0", "1", "-", "+", ",", " "}
AsTexts == Seqs(TextChars, MaxText)

AsEntries ==
  {[kind |-> "id", a |-> n, b |-> n] : n \in 0..MaxEntries}
    \cup {[kind |-> "range", a |-> p[1], b |-> p[2]] :
            p \in (0..MaxEntries) \X (0..MaxEntries)}

\* Short lists of ranges, in any order and possibly overlapping.
ConsLists == Seqs(Ranges, MaxEntries)

AsTuples ==
  {TupleIni("asIdsOrRanges", es) : es \in Seqs(AsEntries, MaxEntries)}
    \cup {TupleIni("inherit", <<>>)}

AsInis ==
  {StrIni(t) : t \in AsTexts} \cup AsTuples
    \cup {ListIni(l) : l \in ConsLists} \cup OtherInis

\* Every address range.
IpRanges == {R(p[1], p[2]) : p \in {q \in Addrs \X Addrs : q[1] <= q[2]}}

\* Address tokens: every serialization, every addr/len and addr-addr, and
\* tokens of neither form.
IpTokens ==
  {str_range_ip(r) : r \in IpRanges}
    \cup {addr_str(a) \o <<"/">> \o DecStr(n) : a \in Addrs, n \in 0..(AddrBits + 1)}
    \cup {addr_str(a) \o <<"-">> \o addr_str(b) : a \in Addrs, b \in Addrs}
    \cup {<<>>, <<"0">>, <<"0", ".", "0">>, <<"/", "1">>, <<"0", ".", "0", "/">>,
          <<"0", ".", "0", "-">>, <<"0", ".", "0", " ", "/", "1">>,
          <<"0", ".", "0", "/", "-", "1">>, <<"0", "/", "1">>,
          <<"0", ".", "0", "/", "1", "/", "1">>, <<"9", ".", "9", "/", "1">>,
          <<"0", ".", "0", "-", "0", ".", "1", "-", "0", ".", "2">>,
          <<"a", ".", "0", "/", "1">>, <<"x">>}

IpTexts ==
  IpTokens
    \cup {join(<<str_range_ip(p[1]), str_range_ip(p[2])>>) : p \in Ranges \X Ranges}

BitStrings(n) == Seqs({0, 1}, n)

PrefixEntry(bs) == [kind |-> "addressPrefix", a |-> bs, b |-> <<>>]
RangeEntry(b1, b2) == [kind |-> "addressRange", a |-> b1, b |-> b2]

IpEntries(n) ==
  {PrefixEntry(bs) : bs \in BitStrings(n)}
    \cup {RangeEntry(p[1], p[2]) : p \in BitStrings(n) \X BitStrings(n)}

IpTuples ==
  {TupleIni("addressesOrRanges", <<>>)}
    \cup {TupleIni("addressesOrRanges", <<e>>) : e \in IpEntries(AddrBits)}
    \cup {TupleIni("addressesOrRanges", <<PrefixEntry(bs)>>) :
            bs \in BitStrings(AddrBits + 1)}
    \cup {TupleIni("addressesOrRanges", <<p[1], PrefixEntry(p[2])>>) :
            p \in IpEntries(MaxBitLen) \X BitStrings(MaxBitLen)}
    \cup {TupleIni("inherit", <<>>)}

IpInis ==
  {StrIni(t) : t \in IpTexts} \cup IpTuples
    \cup {ListIni(<<r>>) : r \in IpRanges}
    \cup {ListIni(l) : l \in ConsLists} \cup OtherInis

Inis(cls) == IF cls = "as" THEN AsInis ELSE IpInis

\* Before a constructor call: a class and an initializer.
InitCons ==
  /\ tself \in ConsClasses
  /\ arg \in Inis(tself)
  /\ tother = tself
  /\ heap = [o \in Objs |-> <<>>]
  /\ self = "r1"
  /\ other = "r2"
  /\ item = NoItem
  /\ op = "none"
  /\ pc = "new"
  /\ set1 = "s1"
  /\ set2 = "s2"
  /\ only1 = <<>>
  /\ only2 = <<>>
  /\ both = <<>>
  /\ com = NoResult
  /\ result = <<>>
  /\ ret = NoResult
  /\ found = FALSE
  /\ txt = <<>>
  /\ back = NoResult

algebra ==
  <<heap, self, other, item, set1, set2, only1, only2, both, com, result,
    found, tother>>

\* x = cls(arg)
construct ==
  /\ pc = "new"
  /\ ret' = new_set(tself, arg)
  /\ op' = "__init__"
  /\ pc' = "done"
  /\ UNCHANGED <<algebra, tself, arg, txt, back>>

\* s = str(x)
to_str ==
  /\ pc = "done" /\ op = "__init__" /\ ret.ok
  /\ txt' = str_set(tself, ret.val)
  /\ op' = "__str__"
  /\ UNCHANGED <<algebra, tself, arg, pc, ret, back>>

\* y = cls(s)
from_str ==
  /\ pc = "done" /\ op = "__str__"
  /\ back' = new_set(tself, StrIni(txt))
  /\ op' = "reparse"
  /\ UNCHANGED <<algebra, tself, arg, pc, ret, txt>>

NextCons ==
  \/ construct
  \/ to_str
  \/ from_str

SpecCons == InitCons /\ [][NextCons]_vars

\* Construction and the algebra together.
NextAll ==
  \/ Next
  \/ NextCons

SpecAll == (Init \/ InitCons) /\ [][NextAll]_vars

----------------------------------------------------------------------------
\* Properties

\* The public method m has returned or raised.
Done(m) == pc = "done" /\ op = m

Elems(s) == {s[i] : i \in 1..Len(s)}

\* How many ranges of s cover the point p.
Hits(s, p) == Cardinality({i \in 1..Len(s) : s[i].min <= p /\ p <= s[i].max})

\* The common part of two overlapping ranges.
Overlap(a, b) ==
  R(IF a.min > b.min THEN a.min ELSE b.min, IF a.max < b.max THEN a.max ELSE b.max)

\* C1: union(A,B) succeeds and returns a set in which no two ranges overlap;
\* a chain of overlapping ranges becomes one output range, never a
\* construction failure.
C1_UnionCollapsesChains ==
  Done("union") => ret.ok /\ Disjoint(ret.val)

\* C2: comm(A,B) = (only1, only2, both) is an exact point-wise partition:
\* only1 covers exactly A minus B, only2 exactly B minus A, both exactly A
\* and B, and every point of A or B lies in exactly one range of the three
\* outputs.
C2_CommPartition ==
  Done("comm") =>
    /\ ret.ok
    /\ Cover(ret.val[1]) = Cover(r1) \ Cover(r2)
    /\ Cover(ret.val[2]) = Cover(r2) \ Cover(r1)
    /\ Cover(ret.val[3]) = Cover(r1) \cap Cover(r2)
    /\ \A p \in Cover(r1) \cup Cover(r2) :
         Hits(ret.val[1], p) + Hits(ret.val[2], p) + Hits(ret.val[3], p) = 1

\* A comm() that split ranges and filled all three outputs.
C2_Witness ==
  /\ Done("comm")
  /\ ret.ok
  /\ ret.val[1] # <<>>
  /\ ret.val[2] # <<>>
  /\ \E x \in Elems(ret.val[3]) : x \notin Elems(r1) /\ x \notin Elems(r2)

\* C3: every range of only1 is contained in A and not in B, every range of
\* only2 in B and not in A, every range of both in A and in B, by
\* contains().
C3_CommOutputsContained ==
  (Done("comm") /\ ret.ok) =>
    /\ \A x \in Elems(ret.val[1]) :
         contains("as", r1, RangeItem("as", x)).val /\ ~contains("as", r2, RangeItem("as", x)).val
    /\ \A x \in Elems(ret.val[2]) :
         ~contains("as", r1, RangeItem("as", x)).val /\ contains("as", r2, RangeItem("as", x)).val
    /\ \A x \in Elems(ret.val[3]) :
         contains("as", r1, RangeItem("as", x)).val /\ contains("as", r2, RangeItem("as", x)).val

\* A comm() whose only1 and only2 hold pieces cut out of larger ranges.
C3_Witness ==
  /\ Done("comm")
  /\ ret.ok
  /\ ret.val[3] # <<>>
  /\ \E x \in Elems(ret.val[1]) : x \notin Elems(r1)
  /\ \E x \in Elems(ret.val[2]) : x \notin Elems(r2)

\* C4: comm(A,B) and comm(B,A) give the same three range lists with only1
\* and only2 exchanged, and intersection(A,B) = intersection(B,A).
C4_CommSymmetric ==
  /\ Done("comm") =>
       LET v2 == comm(r2, r1)
       IN  /\ ret.ok
           /\ v2.ok
           /\ ret.val[1] = v2.val[2]
           /\ ret.val[2] = v2.val[1]
           /\ ret.val[3] = v2.val[3]
  /\ Done("intersection") =>
       LET v2 == intersection(r2, r1)
       IN  ret.ok /\ v2.ok /\ ret.val = v2.val

\* A comm() of two different sets that overlap in at least two places.
C4_Witness ==
  /\ Done("comm")
  /\ ret.ok
  /\ r1 # r2
  /\ Len(ret.val[3]) >= 2
  /\ ret.val[1] # <<>>

\* C5: union(A,B) and union(B,A) both succeed and are equal range lists.
C5_UnionCommutes ==
  Done("union") =>
    LET v2 == union(r2, r1)
    IN  ret.ok /\ v2.ok /\ ret.val = v2.val

\* C6: symmetric_difference(A,B) = symmetric_difference(B,A); it is the
\* union of comm's only1 and only2 and covers exactly the points in one of
\* A and B and not the other.
C6_SymmetricDifference ==
  Done("symmetric_difference") =>
    LET v2 == symmetric_difference(r2, r1)
    IN  /\ ret.ok
        /\ v2.ok
        /\ ret.val = v2.val
        /\ com.ok
        /\ ret = union(com.val[1], com.val[2])
        /\ Cover(ret.val) =
             (Cover(r1) \ Cover(r2)) \cup (Cover(r2) \ Cover(r1))

\* A symmetric difference with parts from both operands around a common
\* part.
C6_Witness ==
  /\ Done("symmetric_difference")
  /\ ret.ok
  /\ com.val[1] # <<>>
  /\ com.val[2] # <<>>
  /\ com.val[3] # <<>>
  /\ Len(ret.val) >= 2

\* C7: intersection(A,B) is the both output of comm(A,B), covers exactly
\* the points of A and B, and each of its ranges is the common part of a
\* range of A and a range of B; the self-test sets intersect to 1,2,3,4,5,6
\* and {1-5,10-15} with {4-12} gives {4-5,10-12}.
C7_Intersection ==
  Done("intersection") =>
    /\ ret.ok
    /\ com.ok
    /\ ret.val = com.val[3]
    /\ Cover(ret.val) = Cover(r1) \cap Cover(r2)
    /\ \A x \in Elems(ret.val) :
         \E a \in Elems(r1), b \in Elems(r2) : x = Overlap(a, b)
    /\ (r1 = TestAs1 /\ r2 = TestAs2) => ret.val = Singles(<<1, 2, 3, 4, 5, 6>>)
    /\ (r1 = <<R(1, 5), R(10, 15)>> /\ r2 = <<R(4, 12)>>)
         => ret.val = <<R(4, 5), R(10, 12)>>

\* The intersection of {1-5,10-15} and {4-12} has returned.
C7_Witness ==
  /\ Done("intersection")
  /\ r1 = <<R(1, 5), R(10, 15)>>
  /\ r2 = <<R(4, 12)>>
  /\ ret.ok

\* C8: difference(A,B) is the only1 output of comm(A,B) and covers exactly
\* the points of A that B does not cover.
C8_Difference ==
  Done("difference") =>
    /\ ret.ok
    /\ com.ok
    /\ ret.val = com.val[1]
    /\ Cover(ret.val) = Cover(r1) \ Cover(r2)

\* A difference that removed part of a range and left part of it, with a
\* subtrahend that also reaches outside the minuend.
C8_Witness ==
  /\ Done("difference")
  /\ ret.ok
  /\ \E x \in Elems(ret.val) : x \notin Elems(r1)
  /\ Cover(r2) \ Cover(r1) # {}

\* C9: when union(A,B) returns, it covers exactly the points of A or B.
C9_UnionCoverage ==
  (Done("union") /\ ret.ok) => Cover(ret.val) = Cover(r1) \cup Cover(r2)

\* A union that returned after merging two overlapping ranges, neither of
\* which holds the other.
C9_Witness ==
  /\ Done("union")
  /\ ret.ok
  /\ \E x \in Elems(ret.val) : x \notin Elems(r1) /\ x \notin Elems(r2)

\* C10: no step of any operation changes the list objects bound to self
\* and other, nor the caller's two operands.
C10_OperandsUnchanged ==
  [][/\ heap'["r1"] = heap["r1"]
     /\ heap'["r2"] = heap["r2"]
     /\ heap'[self] = heap[self]
     /\ heap'[other] = heap[other]]_vars

\* comm() has consumed its working copy of a non-empty operand, which is
\* still whole.
C10_Witness ==
  /\ pc = "done"
  /\ op \in {"comm", "union", "intersection", "difference", "symmetric_difference"}
  /\ r1 # <<>>
  /\ r2 # <<>>
  /\ set1 = "s1"
  /\ heap[set1] = <<>>
  /\ heap[set2] = <<>>

\* C19: contains(set, item) is true exactly when one range of the set
\* covers the item; every range of a set and both its ends are contained;
\* 100 is in "50-200" and not in "1-99,101-200".
C19_Contains ==
  /\ (Done("contains") /\ item.dom = tself) =>
       /\ ret.ok
       /\ found <=> \E r \in Elems(r1) : r.min <= item.min /\ r.max >= item.max
       /\ (r1 = <<R(50, 200)>> /\ item.min = 100 /\ item.max = 100)
            => found
       /\ (r1 = <<R(1, 99), R(101, 200)>> /\ item.min = 100 /\ item.max = 100)
            => ~found
  /\ \A x \in Elems(r1) :
       /\ contains(tself, r1, RangeItem(tself, x)) = [ok |-> TRUE, val |-> TRUE]
       /\ contains(tself, r1, ScalarItem(tself, x.min)) = [ok |-> TRUE, val |-> TRUE]
       /\ contains(tself, r1, ScalarItem(tself, x.max)) = [ok |-> TRUE, val |-> TRUE]

\* contains() has refused a range that lies in the set's cover but spans
\* two adjacent ranges of the set.
C19_Witness ==
  /\ Done("contains")
  /\ item.kind = "range"
  /\ item.dom = tself
  /\ ret.ok
  /\ ~found
  /\ (item.min .. item.max) \subseteq Cover(r1)

\* C20: every operation across two domains raises, whatever the operands,
\* an empty set included.
C20_CrossDomainRaises ==
  /\ (pc = "done" /\ tself # tother
        /\ op \in {"comm", "union", "intersection", "difference",
                   "symmetric_difference"}) => ~ret.ok
  /\ (Done("contains") /\ item.dom # tself) => ~ret.ok

----------------------------------------------------------------------------
\* Construction

\* Ascending by min.
Sorted(s) == \A i \in 1..(Len(s) - 1) : s[i].min <= s[i + 1].min

SetOps == {"union", "intersection", "difference", "symmetric_difference"}
ConsOps == {"__init__", "__str__", "reparse"}

\* The sets that exist in a state: the operands, what a constructor call
\* returned, and what comm or a set operation returned.
BuiltSets ==
  {r1, r2}
    \cup (IF com.ok /\ Len(com.val) = 3 THEN {com.val[i] : i \in 1..3} ELSE {})
    \cup (IF pc = "done" /\ ret.ok /\ op \in SetOps \cup ConsOps
          THEN {ret.val} ELSE {})
    \cup (IF back.ok THEN {back.val} ELSE {})

\* C11: every set that was constructed, from a text, a tuple or a list, or
\* as a result of comm, union, intersection, difference or
\* symmetric_difference, is sorted ascending by min and has
\* self[i].max < self[i+1].min for every adjacent pair.
C11_SortedDisjoint == \A s \in BuiltSets : Sorted(s) /\ Disjoint(s)

\* A list initializer given out of order and accepted.
C11_Witness ==
  /\ Done("__init__")
  /\ arg.type = "list"
  /\ ret.ok
  /\ Len(ret.val) >= 2
  /\ arg.list # ret.val

\* The initializer names a range whose min exceeds its max: an AS tuple
\* entry ("range", (a, b)) with a > b, or a text token N-M or addr-addr
\* with the first above the second.
InvertedSource ==
  \/ /\ arg.type = "tuple"
     /\ tself = "as"
     /\ arg.tag = "asIdsOrRanges"
     /\ \E i \in 1..Len(arg.entries) :
          arg.entries[i].kind = "range" /\ arg.entries[i].a > arg.entries[i].b
  \/ /\ arg.type = "str"
     /\ \E i \in 1..Len(split(arg.text)) :
          LET x == split(arg.text)[i]
          IN  IF tself = "as"
              THEN /\ match_as_range(x).ok
                   /\ DecVal(match_as_range(x).g1) > DecVal(match_as_range(x).g2)
              ELSE /\ match_ip_range(x).ok
                   /\ addr_type(match_ip_range(x).g1).ok
                   /\ addr_type(match_ip_range(x).g2).ok
                   /\ addr_type(match_ip_range(x).g1).val
                        > addr_type(match_ip_range(x).g2).val

\* Every list of ranges a state holds.
AllLists ==
  BuiltSets \cup {heap[o] : o \in Objs} \cup {only1, only2, both, result}

\* C13: constructing a range with min > max fails, so a source naming such
\* a range builds no set, and every range that exists, the sub-ranges of
\* a split and the merged ranges of a union included, has min <= max.
C13_MinLeMax ==
  /\ (Done("__init__") /\ InvertedSource) => ~ret.ok
  /\ \A s \in AllLists : \A x \in Elems(s) : x.min <= x.max

\* A constructor call on a source with an inverted range.
C13_Witness == Done("__init__") /\ InvertedSource /\ ~ret.ok

\* C18: constructing an AS or IP set from a decoded tuple whose variant is
\* "inherit" fails; it never yields a set, empty or partial.
C18_InheritFails ==
  (Done("__init__") /\ arg.type = "tuple" /\ arg.tag = "inherit") => ~ret.ok

\* A constructor call of the address class on an "inherit" tuple.
C18_Witness ==
  /\ Done("__init__")
  /\ tself = "ipv4"
  /\ arg.type = "tuple"
  /\ arg.tag = "inherit"
  /\ ~ret.ok

\* The AS grammar: N or N-M, N and M unsigned decimal integers.
AsToken(x) ==
  \/ AllDigits(x)
  \/ \E i \in 1..Len(x) :
       /\ x[i] = "-"
       /\ AllDigits(SubSeq(x, 1, i - 1))
       /\ AllDigits(SubSeq(x, i + 1, Len(x)))

\* The address grammar: addr-addr or addr/len.
IpToken(x) ==
  \/ \E i \in 1..Len(x) :
       /\ x[i] = "-"
       /\ addr_type(SubSeq(x, 1, i - 1)).ok
       /\ addr_type(SubSeq(x, i + 1, Len(x))).ok
  \/ \E i \in 1..Len(x) :
       /\ x[i] = "/"
       /\ addr_type(SubSeq(x, 1, i - 1)).ok
       /\ AllDigits(SubSeq(x, i + 1, Len(x)))

Token(cls, x) == IF cls = "as" THEN AsToken(x) ELSE IpToken(x)

\* Some comma-separated token of the text matches neither form.
BadToken(cls, t) ==
  \E i \in 1..Len(split(t)) : ~Token(cls, split(t)[i])

\* C17: constructing a set from a text with a token that matches neither
\* grammar form (an empty token, a signed token, a token with whitespace
\* around it) fails; no such token is accepted as a range.
C17_BadTokenFails ==
  (Done("__init__") /\ arg.type = "str" /\ arg.text # <<>> /\ BadToken(tself, arg.text))
    => ~ret.ok

\* The text is one prefix token addr/len, len within the width.
PrefixText(t) ==
  \E i \in 1..Len(t) :
    /\ t[i] = "/"
    /\ addr_type(SubSeq(t, 1, i - 1)).ok
    /\ AllDigits(SubSeq(t, i + 1, Len(t)))
    /\ DecVal(SubSeq(t, i + 1, Len(t))) <= AddrBits

PrefixAddr(t) ==
  addr_type(SubSeq(t, 1, (CHOOSE i \in 1..Len(t) : t[i] = "/") - 1)).val

PrefixLen(t) ==
  DecVal(SubSeq(t, (CHOOSE i \in 1..Len(t) : t[i] = "/") + 1, Len(t)))

\* The addresses of the block of len leading bits an address lies in.
BlockSize(len) == Pow2(AddrBits - len)

\* C16: parsing a prefix token addr/len fails when addr has a one among
\* its low bitwidth - len bits (addr & mask != 0); otherwise it yields
\* exactly the range [addr, addr | mask], the whole block.
C16_PrefixParse ==
  (Done("__init__") /\ tself = "ipv4" /\ arg.type = "str" /\ PrefixText(arg.text)) =>
    LET addr == PrefixAddr(arg.text)
        size == BlockSize(PrefixLen(arg.text))
    IN  IF addr % size # 0 THEN ~ret.ok
        ELSE ret = [ok |-> TRUE, val |-> <<R(addr, addr + size - 1)>>]

\* A prefix token whose address is not the base of its block, rejected.
C16_Witness ==
  /\ Done("__init__")
  /\ tself = "ipv4"
  /\ arg.type = "str"
  /\ PrefixText(arg.text)
  /\ PrefixAddr(arg.text) % BlockSize(PrefixLen(arg.text)) # 0
  /\ ~ret.ok

\* The range is the block of the addresses sharing their leading
\* bitwidth - k bits: min has its k low bits zero and max has them one.
IsBlock(r, k) == r.min % Pow2(k) = 0 /\ r.max = r.min + Pow2(k) - 1

\* The text the canonicalization rule gives an address range.
CanonRangeIp(r) ==
  IF \E k \in 0..AddrBits : IsBlock(r, k)
  THEN LET k == CHOOSE j \in 0..AddrBits : IsBlock(r, j)
       IN  addr_str(r.min) \o <<"/">> \o DecStr(AddrBits - k)
  ELSE addr_str(r.min) \o <<"-">> \o addr_str(r.max)

\* C14: the text of an address range [min, max] is addr/prefixlen exactly
\* when the range is a bit-aligned block of 2^k addresses, with
\* prefixlen = bitwidth - k; every other range, one whose min XOR max is
\* a run of low ones but whose min is not aligned included, is addr-addr.
C14_IpText ==
  (Done("__str__") /\ tself = "ipv4" /\ Len(ret.val) = 1) =>
    txt = CanonRangeIp(ret.val[1])

\* The text an AS range is written as.
CanonRangeAs(r) ==
  IF r.min = r.max THEN DecStr(r.min)
  ELSE DecStr(r.min) \o <<"-">> \o DecStr(r.max)

CanonRange(cls, r) == IF cls = "as" THEN CanonRangeAs(r) ELSE CanonRangeIp(r)

\* The range a token of the grammar denotes, if it denotes one.
TokenRange(cls, x) ==
  IF cls = "as" /\ AllDigits(x) THEN [ok |-> TRUE, val |-> R(DecVal(x), DecVal(x))]
  ELSE IF ~Token(cls, x) THEN NoRange
  ELSE LET i  == CHOOSE j \in 1..Len(x) : x[j] \in {"-", "/"}
           lt == SubSeq(x, 1, i - 1)
           rt == SubSeq(x, i + 1, Len(x))
       IN  IF cls = "as"
           THEN [ok |-> DecVal(lt) <= DecVal(rt), val |-> R(DecVal(lt), DecVal(rt))]
           ELSE IF x[i] = "-"
           THEN [ok |-> addr_type(lt).val <= addr_type(rt).val,
                 val |-> R(addr_type(lt).val, addr_type(rt).val)]
           ELSE IF DecVal(rt) > AddrBits THEN NoRange
           ELSE [ok |-> addr_type(lt).val % BlockSize(DecVal(rt)) = 0,
                 val |-> R(addr_type(lt).val,
                           addr_type(lt).val + BlockSize(DecVal(rt)) - 1)]

\* A canonical text: tokens in canonical form, sorted and disjoint.
CanonicalText(cls, t) ==
  /\ t # <<>>
  /\ LET ps == split(t)
     IN  /\ \A i \in 1..Len(ps) :
               /\ TokenRange(cls, ps[i]).ok
               /\ CanonRange(cls, TokenRange(cls, ps[i]).val) = ps[i]
         /\ \A i \in 1..(Len(ps) - 1) :
               TokenRange(cls, ps[i]).val.max < TokenRange(cls, ps[i + 1]).val.min

\* C15: the text of every range parses back to a range with the same min
\* and max, and a canonical text s parses and serializes back to s, prefix
\* tokens staying prefixes and range tokens staying ranges.
C15_RoundTrip ==
  /\ (Done("reparse") /\ Len(ret.val) = 1) => back = [ok |-> TRUE, val |-> ret.val]
  /\ (Done("__init__") /\ arg.type = "str" /\ CanonicalText(tself, arg.text)) => ret.ok
  /\ (Done("__str__") /\ arg.type = "str" /\ CanonicalText(tself, arg.text)) =>
       txt = arg.text

\* A bit-string as the leading bits of an address, the other bits zero.
Leading(bs) == bs2long(bs) * Pow2(AddrBits - Len(bs))

\* The range a tuple entry denotes: a number, a range of numbers, the
\* block of a prefix, or from the first address of the block of the min
\* bit-string to the last address of the block of the max bit-string.
EntryRange(cls, e) ==
  IF cls = "as"
  THEN IF e.kind = "range" THEN [ok |-> e.a <= e.b, val |-> R(e.a, e.b)]
       ELSE [ok |-> TRUE, val |-> R(e.a, e.a)]
  ELSE IF Len(e.a) > AddrBits \/ Len(e.b) > AddrBits THEN NoRange
  ELSE IF e.kind = "addressRange"
  THEN LET lo == Leading(e.a)
           hi == Leading(e.b) + Pow2(AddrBits - Len(e.b)) - 1
       IN  [ok |-> lo <= hi, val |-> R(lo, hi)]
  ELSE [ok |-> TRUE,
        val |-> R(Leading(e.a), Leading(e.a) + Pow2(AddrBits - Len(e.a)) - 1)]

\* The ranges an initializer names, in the order it names them.
SourceRanges(cls, a) ==
  IF a.type = "str" /\ a.text # <<>>
  THEN [i \in 1..Len(split(a.text)) |-> TokenRange(cls, split(a.text)[i])]
  ELSE IF a.type = "tuple" /\ a.tag \in {"asIdsOrRanges", "addressesOrRanges"}
  THEN [i \in 1..Len(a.entries) |-> EntryRange(cls, a.entries[i])]
  ELSE [i \in 1..Len(a.list) |-> [ok |-> TRUE, val |-> a.list[i]]]

\* Two of the ranges the initializer names have an address or number in
\* common: the same range twice, nested ranges, or a partial overlap.
SourceOverlaps(cls, a) ==
  LET rs == SourceRanges(cls, a)
  IN  /\ \A i \in 1..Len(rs) : rs[i].ok
      /\ \E i \in 1..Len(rs) : \E j \in (i + 1)..Len(rs) :
           rs[i].val.min <= rs[j].val.max /\ rs[j].val.min <= rs[i].val.max

\* C12: constructing a set from a text, a tuple or a list that names two
\* overlapping ranges fails; it returns no set.
C12_OverlapFails ==
  (Done("__init__") /\ SourceOverlaps(tself, arg)) => ~ret.ok

----------------------------------------------------------------------------
\* Behaviour of union, decoding, splitting and the loops

\* Range a ends right before range b starts.
Touches(a, b) == a.max + 1 = b.min

\* C21: union merges touching ranges as well as overlapping ones: when a
\* range of A ends at m and a range of B starts at m+1, or the reverse,
\* union(A,B) holds one range spanning both; union({1-5},{6-10}) is {1-10}.
C21_UnionMergesTouching ==
  (Done("union") /\ ret.ok) =>
    /\ \A a \in Elems(r1) : \A b \in Elems(r2) :
         (Touches(a, b) \/ Touches(b, a)) =>
           \E x \in Elems(ret.val) :
             /\ x.min <= a.min /\ x.min <= b.min
             /\ x.max >= a.max /\ x.max >= b.max
    /\ (r1 = <<R(1, 5)>> /\ r2 = <<R(6, 10)>>) => ret.val = <<R(1, 10)>>

\* C22: decoding an address tuple of one entry gives the range the entry
\* denotes: for a prefix bit-string b of length n the block
\* [b << (bitwidth-n), (b << (bitwidth-n)) | (2^(bitwidth-n) - 1)]; for an
\* addressRange (bmin, bmax) from bmin with zero low bits to bmax with
\* its own low bits one, the max decided by bmax and not by bmin.
C22_TupleDecoding ==
  (/\ Done("__init__")
   /\ tself = "ipv4"
   /\ arg.type = "tuple"
   /\ arg.tag = "addressesOrRanges"
   /\ Len(arg.entries) = 1
   /\ EntryRange(tself, arg.entries[1]).ok) =>
    ret = [ok |-> TRUE, val |-> <<EntryRange(tself, arg.entries[1]).val>>]

\* A step that splits the head of working list w against the head of
\* working list o: the call is made within its precondition, it does not
\* raise, and the head is replaced by two non-empty adjacent sub-ranges
\* that cover exactly the range split.
SplitStep(w, o) ==
  LET this == heap[w][1]
      that == heap[o][1]
      new  == heap'[w]
  IN  /\ \/ this.min < that.min /\ that.min <= this.max
         \/ this.min = that.min /\ that.max < this.max
      /\ pc' = "comm"
      /\ Len(new) = Len(heap[w]) + 1
      /\ new[1].min = this.min
      /\ new[1].max = IF this.min < that.min THEN that.min - 1 ELSE that.max
      /\ new[2].min = new[1].max + 1
      /\ new[2].max = this.max
      /\ this.min <= new[1].max
      /\ new[2].min <= this.max
      /\ SubSeq(new, 3, Len(new)) = Tail(heap[w])
      /\ heap'[o] = heap[o]

\* C23: rsplit is reached only with this.min < that.min <= this.max or
\* with this.min = that.min and that.max < this.max, so that.min - 1 and
\* that.max + 1 stay within the range split, and the two sub-ranges it
\* inserts are non-empty, adjacent and cover exactly the original range,
\* also for ranges that start at 0 or end at the largest value.
C23_SplitInDomain ==
  [][/\ (CommAt("split1min") \/ CommAt("split1max")) => SplitStep(set1, set2)
     /\ (CommAt("split2min") \/ CommAt("split2max")) => SplitStep(set2, set1)]_vars

\* The range from 0 to the largest value, just split in two.
C23_Witness ==
  /\ pc = "comm"
  /\ r1 # <<>>
  /\ r1[1] = R(0, MaxVal)
  /\ Len(heap[set1]) = Len(r1) + 1
  /\ heap[set1][1].min = 0
  /\ heap[set1][2].max = MaxVal
  /\ heap[set1][2].min = heap[set1][1].max + 1

\* The numbers a range holds.
Width(r) == r.max - r.min + 1

\* What is left to do on a working list: popping a range takes one
\* iteration, and a range of n numbers is split at most n - 1 times.
RECURSIVE Weight(_)
Weight(s) == IF s = <<>> THEN 0 ELSE 2 * Width(Head(s)) - 1 + Weight(Tail(s))

Measure == Weight(heap[set1]) + Weight(heap[set2])

Exhausted == heap[set1] = <<>> /\ heap[set2] = <<>>

\* C24: the comm and union loops terminate: each iteration removes a head
\* range from a working list or splits a head into two strictly smaller
\* ranges, so what is left to do decreases with every iteration, and both
\* working lists are eventually exhausted.
C24_LoopsTerminate ==
  /\ [][((pc = "comm" /\ pc' = "comm") \/ (pc = "union" /\ pc' = "union"))
          => Measure' < Measure]_progress
  /\ (pc \in {"comm", "union"}) ~> Exhausted

\* A comm loop at its end, after it split ranges.
C24_Witness ==
  /\ pc = "comm"
  /\ Exhausted
  /\ Len(only1) + Len(only2) + 2 * Len(both) > Len(r1) + Len(r2)

----------------------------------------------------------------------------
\* A set applied to itself

\* Two ranges of s follow one another without a gap.
HasAdjacent(s) == \E i \in 1..(Len(s) - 1) : s[i].max + 1 = s[i + 1].min

\* C25: applying an operation to a valid set A and itself: comm returns
\* (empty, empty, A), intersection returns A, difference and
\* symmetric_difference return the empty set, and union returns A with the
\* range boundaries of A, adjacent ranges left apart.
C25_SelfApplication ==
  (pc = "done" /\ r1 = r2) =>
    /\ (op = "comm") => ret = [ok |-> TRUE, val |-> <<<<>>, <<>>, r1>>]
    /\ (op = "intersection") => ret = [ok |-> TRUE, val |-> r1]
    /\ (op \in {"difference", "symmetric_difference"}) =>
         ret = [ok |-> TRUE, val |-> <<>>]
    /\ (op = "union") => ret = [ok |-> TRUE, val |-> r1]

\* union() of a set with adjacent ranges and itself has returned.
C25_Witness ==
  /\ Done("union")
  /\ r1 = r2
  /\ HasAdjacent(r1)
  /\ ret.ok
  /\ HasAdjacent(ret.val)

----------------------------------------------------------------------------
\* Construction of the empty set

\* No initializer, or a list of no ranges.
AbsentIni == arg.type = "None" \/ (arg.type = "list" /\ arg.list = <<>>)

\* A tuple with the tag of the class and no entries.
EmptyTuple ==
  arg.type = "tuple" /\ arg.tag = tuple_tag(tself) /\ arg.entries = <<>>

\* The constructor returned the empty set.
BuiltEmpty == ret = [ok |-> TRUE, val |-> <<>>]

\* What holds of every initializer: None and the empty list give the empty
\* set, the empty text and an initializer of another type are rejected.
EmptyCases ==
  /\ AbsentIni => BuiltEmpty
  /\ (arg.type = "str" /\ arg.text = <<>>) => ~ret.ok
  /\ (arg.type = "other") => ~ret.ok

\* C26: the empty set is built only from an absent initializer (None, no
\* argument, an empty list); the empty text is rejected and so is an
\* initializer of any other type.
C26_EmptyOnlyFromAbsent ==
  Done("__init__") =>
    /\ BuiltEmpty => AbsentIni
    /\ EmptyCases

\* C26 amended: the empty set is built exactly from None, an empty list, or
\* a tuple with the tag of the class and no entries; the empty text is
\* rejected and so is an initializer of any other type.
C26_EmptyConstruction ==
  Done("__init__") =>
    /\ BuiltEmpty <=> (AbsentIni \/ EmptyTuple)
    /\ EmptyCases

\* The constructor rejected the empty text.
C26_Witness ==
  /\ Done("__init__")
  /\ arg.type = "str"
  /\ arg.text = <<>>
  /\ ~ret.ok

====
